---------------------------- MODULE Spec2Model ----------------------------
(***************************************************************************)
(* A model of scripts/sync-models.js: the synchronisation run syncModels   *)
(* (read the roster, resolve photos entity by entity, write the JSON       *)
(* snapshot, compute statistics) together with the helpers it calls.       *)
(*                                                                         *)
(* A JavaScript string is modelled as a sequence of units.  A unit is      *)
(* either a whitespace character, the comma, or an opaque run of other     *)
(* characters (a word, a number, a URL fragment): trim() and split(',')    *)
(* only ever look at whitespace and commas.  The empty string is << >>.    *)
(* An object is a function from its own property names to their values;   *)
(* a property the object lacks is one that is not in its DOMAIN (reading   *)
(* it in JavaScript gives undefined).  Cells of a sheet row are strings.   *)
(*                                                                         *)
(* The script's entry point (lines 197-207) and the browser snippet that   *)
(* follows module.exports (lines 211-226) are callers and consumers of the *)
(* run, not part of it, and are not modelled.                              *)
(***************************************************************************)
EXTENDS Integers, Sequences, FiniteSets, TLC

VARIABLES
    CONFIG,     \* the configuration object (lines 7-17), fixed for a run
    pc,         \* the stage syncModels has reached
    rows,       \* what sheet.getRows() delivered (<< >> when it was not read)
    mapped,     \* the array rows.map(...) built, before .filter (line 95-116)
    source,     \* what getModelsFromGoogleSheets returned
    models,     \* the array syncModels works on (mutated in place by the loop)
    i,          \* the loop index of lines 32-44, counted from 1
    lookups,    \* the calls of getPhotosForModel: loop index and argument
    dirExists,  \* whether path.dirname(JSON_OUTPUT_PATH) exists
    madeDir,    \* whether this run's mkdirSync created that directory
    file,       \* the file at JSON_OUTPUT_PATH
    stderr,     \* what console.error printed, in order
    result      \* what syncModels gave its caller: nothing yet, a value, a throw

vars == <<CONFIG, pc, rows, mapped, source, models, i, lookups,
          dirExists, madeDir, file, stderr, result>>

(***************************************************************************)
(* Bounds of the model.                                                    *)
(***************************************************************************)
\* Most rows a sheet holds in the run specification.
MaxRows == 3
\* Most rows a sheet holds in the normaliser specification, whose rows are
\* drawn from the much larger RowDomain.
MaxNormRows == 1

(***************************************************************************)
(* Strings.                                                                *)
(***************************************************************************)
Whitespace == {" ", "\t"}

RECURSIVE TrimStart(_)
TrimStart(s) ==
    IF s # << >> /\ Head(s) \in Whitespace THEN TrimStart(Tail(s)) ELSE s

RECURSIVE TrimEnd(_)
TrimEnd(s) ==
    IF s # << >> /\ s[Len(s)] \in Whitespace
    THEN TrimEnd(SubSeq(s, 1, Len(s) - 1))
    ELSE s

\* String.prototype.trim
Trim(s) == TrimEnd(TrimStart(s))

\* String.prototype.split(','): the pieces between the commas, empty pieces
\* included; the empty string splits into one empty piece.
RECURSIVE Split(_)
Split(s) ==
    IF \A k \in 1..Len(s) : s[k] # ","
    THEN << s >>
    ELSE LET k == CHOOSE n \in 1..Len(s) :
                      s[n] = "," /\ \A m \in 1..(n - 1) : s[m] # ","
         IN  << SubSeq(s, 1, k - 1) >> \o Split(SubSeq(s, k + 1, Len(s)))

\* Array.prototype.map(p => p.trim())
RECURSIVE MapTrim(_)
MapTrim(ps) ==
    IF ps = << >> THEN << >> ELSE << Trim(Head(ps)) >> \o MapTrim(Tail(ps))

\* Array.prototype.filter(p => p): the non-empty strings, in order.
RECURSIVE FilterNonEmpty(_)
FilterNonEmpty(ps) ==
    IF ps = << >> THEN << >>
    ELSE (IF Head(ps) # << >> THEN << Head(ps) >> ELSE << >>)
         \o FilterNonEmpty(Tail(ps))

\* JavaScript truthiness of row[key]: undefined and '' are falsy.
Truthy(row, key) == key \in DOMAIN row /\ row[key] # << >>

\* OrElse with the capitalised header tried first.
OrElseUpperFirst(row, lower, upper) ==
    IF Truthy(row, upper) THEN row[upper]
    ELSE IF Truthy(row, lower) THEN row[lower]
    ELSE << >>

\* row[lower] || row[upper] || ''
OrElse(row, lower, upper) ==
    IF Truthy(row, lower) THEN row[lower]
    ELSE IF Truthy(row, upper) THEN row[upper]
    ELSE << >>

\* IsLiteralFalse comparing without regard to case.
IsFalseIgnoringCase(row, key) ==
    key \in DOMAIN row /\ row[key] \in {<< "false" >>, << "FALSE" >>}

\* row[key] === 'false'
IsLiteralFalse(row, key) == key \in DOMAIN row /\ row[key] = << "false" >>

(***************************************************************************)
(* getSampleData (lines 164-194).  The Cyrillic names, cities and bios of  *)
(* the source are transliterated; the second entity has no measurements    *)
(* property, as in the source.                                             *)
(***************************************************************************)
PicsumUrl(id) == << "https://picsum.photos/id/", id, "/800/1000" >>

getSampleData ==
    << [id |-> << "anna_ivanova" >>,
        name |-> << "Anna", " ", "Ivanova" >>,
        height |-> << "175" >>,
        measurements |-> << "88-60-90" >>,
        city |-> << "Moskva" >>,
        category |-> << "fashion" >>,
        is_available |-> TRUE,
        bio |-> << "Opyt", " ", "raboty", " ", "3", " ", "goda." >>,
        photos |-> << PicsumUrl("1005"), PicsumUrl("1011") >>],
       [id |-> << "maria_petrova" >>,
        name |-> << "Maria", " ", "Petrova" >>,
        height |-> << "168" >>,
        city |-> << "Sankt-Peterburg" >>,
        category |-> << "commercial" >>,
        is_available |-> TRUE,
        bio |-> << "Specializaciya:", " ", "katalogi." >>,
        photos |-> << PicsumUrl("1025"), PicsumUrl("1027") >>] >>

(***************************************************************************)
(* The row normaliser: the callback of rows.map (lines 95-116) and the     *)
(* filter that follows it (line 117).                                      *)
(***************************************************************************)
\* String(row.photos || row.Photos || '').split(',').map(trim).filter(p => p)
ParsePhotos(row) ==
    FilterNonEmpty(MapTrim(Split(OrElse(row, "photos", "Photos"))))

\* the value of model.photos when the callback returns (lines 105-114)
RowPhotos(row) ==
    IF Truthy(row, "photos") \/ Truthy(row, "Photos")
    THEN (IF Len(ParsePhotos(row)) > 0 THEN ParsePhotos(row) ELSE << >>)
    ELSE << >>

\* !(row.is_available === 'false' || row.available === 'false')
RowAvailable(row) ==
    ~(IsLiteralFalse(row, "is_available") \/ IsLiteralFalse(row, "available"))

RowToModel(row) ==
    [id |-> Trim(OrElse(row, "id", "ID")),
     name |-> Trim(OrElse(row, "name", "Name")),
     height |-> OrElse(row, "height", "Height"),
     measurements |-> OrElse(row, "measurements", "Measurements"),
     city |-> OrElse(row, "city", "City"),
     category |-> OrElse(row, "category", "Category"),
     bio |-> OrElse(row, "bio", "Bio"),
     is_available |-> RowAvailable(row),
     photos |-> RowPhotos(row)]

\* rows.map(row => ...)
MapRows(rs) == [k \in 1..Len(rs) |-> RowToModel(rs[k])]

\* KeepModel with || in place of &&.
KeepModelEither(model) == model.id # << >> \/ model.name # << >>

\* model => model.id && model.name
KeepModel(model) == model.id # << >> /\ model.name # << >>

\* .filter(model => model.id && model.name)
FilterModels(ms) == SelectSeq(ms, KeepModel)

\* LiveReadFallback returning no entities.
LiveReadFallbackEmpty == << >>

\* What the catch of lines 119-122 returns.
LiveReadFallback == getSampleData


(***************************************************************************)
(* getPhotosForModel (lines 126-141).                                      *)
(***************************************************************************)
\* Values Math.random() may return, in millionths: the least, 0, and the
\* largest value below 1 the model distinguishes.
MathRandom == {0, 999999}

\* FloorTimes1000 with Math.round in place of Math.floor.
RoundTimes1000(r) == (r * 1000 + 500000) \div 1000000

\* Math.floor(r * 1000), r given in millionths
FloorTimes1000(r) == (r * 1000) \div 1000000

\* `https://picsum.photos/id/${Math.floor(Math.random() * 1000)}/800/1000`
PlaceholderUrl(r) == PicsumUrl(ToString(FloorTimes1000(r)))

\* The arrays a call of getPhotosForModel may return under a configuration.
getPhotosForModel(cfg) ==
    IF cfg.YANDEX_DISK_FOLDER = ""
    THEN {<< PlaceholderUrl(r1), PlaceholderUrl(r2) >> : r1, r2 \in MathRandom}
    ELSE {<< >>}

\* LacksPhotos with the test of line 37 dropped.
LacksPhotosAlways(model) == TRUE

\* !model.photos || model.photos.length === 0   (line 37)
LacksPhotos(model) == "photos" \notin DOMAIN model \/ Len(model.photos) = 0

\* if (photos.length > 0) model.photos = photos   (lines 39-42)
WithPhotos(model, photos) ==
    IF Len(photos) > 0 THEN [model EXCEPT !.photos = photos] ELSE model

\* The loop body's effect on one entity, given what the provider returns
\* when it is asked (lines 37-43).
ResolveModel(model, photos) ==
    IF LacksPhotos(model) THEN WithPhotos(model, photos) ELSE model

(***************************************************************************)
(* saveModelsToJSON (lines 144-161) and the statistics (lines 51-56).      *)
(***************************************************************************)
\* JSON.stringify(models, null, 2): an array of objects, each object the
\* set of its own members (name, value); a property an entity lacks has
\* no member.
StringifyModel(model) == {<< key, model[key] >> : key \in DOMAIN model}

\* JSONStringify leaving out the last entity.
JSONStringifyAllButLast(ms) ==
    [k \in 1..(Len(ms) - 1) |-> StringifyModel(ms[k])]

JSONStringify(ms) == [k \in 1..Len(ms) |-> StringifyModel(ms[k])]

\* m => m.photos && m.photos.length > 0
HasPhotos(model) == "photos" \in DOMAIN model /\ Len(model.photos) > 0

\* SumPhotos adding 1 for each entity with photos.
SumPhotosCountsModels(ms) == Len(SelectSeq(ms, HasPhotos))

\* models.reduce((sum, m) => sum + (m.photos ? m.photos.length : 0), 0)
RECURSIVE SumPhotos(_)
SumPhotos(ms) ==
    IF ms = << >> THEN 0
    ELSE (IF "photos" \in DOMAIN Head(ms) THEN Len(Head(ms).photos) ELSE 0)
         + SumPhotos(Tail(ms))

Stats(ms, now) ==
    [totalModels |-> Len(ms),
     modelsWithPhotos |-> Len(SelectSeq(ms, HasPhotos)),
     totalPhotos |-> SumPhotos(ms),
     timestamp |-> now]

\* What syncModels has given its caller.
Pending == [kind |-> "pending", value |-> << >>]
Returned(v) == [kind |-> "return", value |-> v]
Thrown(e) == [kind |-> "throw", value |-> e]

(***************************************************************************)
(* The environment: configurations, sheets, the file system, the clock.    *)
(***************************************************************************)
Configs ==
    [GOOGLE_SHEET_ID : {"", "sheet-id"}, YANDEX_DISK_FOLDER : {"", "folder"}]

\* Where a live read may fail (lines 80-92), or "ok".
LiveOutcomes ==
    {"ok", "credentials", "useServiceAccountAuth", "loadInfo", "noSheet",
     "getRows"}

\* How saveModelsToJSON may end: "mkdir" only when the directory is missing;
\* "open" fails before the file is touched, "write" after it was truncated.
WriteOutcomes == {"ok", "mkdir", "open", "write"}

\* new Date().toISOString()
Clock == {"2026-01-01T00:00:00.000Z", "2026-01-01T00:00:01.000Z"}

NoFile == [exists |-> FALSE, complete |-> FALSE, content |-> << >>]
\* The snapshot an earlier run left behind.
OldFile ==
    [exists |-> TRUE, complete |-> TRUE,
     content |-> JSONStringify(<< getSampleData[1] >>)]

\* The rows of the run specification's sheets.
SheetRows ==
    { [id |-> << "m1" >>, name |-> << "Ann" >>,
       photos |-> << "p1", ",", "p2" >>],
      [ID |-> << " ", "m2", " " >>, Name |-> << "Bea" >>,
       is_available |-> << "false" >>,
       Photos |-> << " ", "p1", " ", ",", " ", ",", "p2", ",", "p3" >>],
      [id |-> << "m3" >>, name |-> << "Cy" >>],
      [id |-> << "m1" >>, name |-> << "Dup" >>, available |-> << "false" >>,
       height |-> << " ", "175", " " >>, photos |-> << " ", ",", " " >>],
      [id |-> << " " >>, ID |-> << "m5" >>, name |-> << "Eve" >>,
       photos |-> << "p1" >>],
      [id |-> << "m6" >>, Name |-> << >>],
      [id |-> << "m8" >>, name |-> << " ", "Gil" >>, Height |-> << "180" >>,
       is_available |-> << "FALSE" >>, photos |-> << "p1" >>] }

SeqsUpTo(S, n) == UNION {[1..k -> S] : k \in 0..n}

Sheets == SeqsUpTo(SheetRows, MaxRows)

\* The rows of the normaliser specification's sheets.  A cell is absent
\* (the empty set of values) or holds one string; each family of rows lets
\* the two aliases of one column range over every pair of cells, on top of
\* a row that would otherwise be retained.
Cell(key, values) == IF values = {} THEN << >> ELSE key :> (CHOOSE v \in values : TRUE)

Cells(strings) == {{}} \cup {{s} : s \in strings}

Family(base, lower, upper, strings) ==
    {Cell(lower, c1) @@ Cell(upper, c2) @@ base :
        c1 \in Cells(strings), c2 \in Cells(strings)}

KeyStrings == {<< >>, << " " >>, << "m1" >>, << " ", "m2", "\t" >>}
TextStrings == {<< >>, << " ", "175", " " >>, << "180" >>}
FlagStrings ==
    {<< "false" >>, << "true" >>, << "FALSE" >>, << "no" >>, << " ", "false" >>}
PhotoStrings ==
    {<< >>, << "p1", ",", "p2" >>, << " ", ",", " " >>,
     << " ", "p1", " ", ",", ",", "p2", ",", "p3", " " >>}

RowDomain ==
    Family([name |-> << "Ann" >>], "id", "ID", KeyStrings)
    \cup Family([id |-> << "m1" >>], "name", "Name", KeyStrings)
    \cup Family([id |-> << "m1" >>, name |-> << "Ann" >>],
                "height", "Height", TextStrings)
    \cup Family([id |-> << "m1" >>, name |-> << "Ann" >>],
                "measurements", "Measurements", TextStrings)
    \cup Family([id |-> << "m1" >>, name |-> << "Ann" >>],
                "city", "City", TextStrings)
    \cup Family([id |-> << "m1" >>, name |-> << "Ann" >>],
                "category", "Category", TextStrings)
    \cup Family([id |-> << "m1" >>, name |-> << "Ann" >>],
                "bio", "Bio", TextStrings)
    \cup Family([id |-> << "m1" >>, name |-> << "Ann" >>],
                "is_available", "available", FlagStrings)
    \cup Family([id |-> << "m1" >>, name |-> << "Ann" >>],
                "photos", "Photos", PhotoStrings)

NormSheets == SeqsUpTo(RowDomain, MaxNormRows)

(***************************************************************************)
(* syncModels (lines 20-67), stage by stage.                               *)
(***************************************************************************)
InitWith(cfgs) ==
    /\ CONFIG \in cfgs
    /\ pc = "START"
    /\ rows = << >>
    /\ mapped = << >>
    /\ source = << >>
    /\ models = << >>
    /\ i = 1
    /\ lookups = << >>
    /\ \/ dirExists = FALSE /\ file = NoFile
       \/ dirExists = TRUE /\ file = OldFile
    /\ madeDir = FALSE
    /\ stderr = << >>
    /\ result = Pending

Init == InitWith(Configs)

\* lines 20-25: the run begins and calls the source reader
Start ==
    /\ pc = "START"
    /\ pc' = "READ_SOURCE"
    /\ UNCHANGED <<CONFIG, rows, mapped, source, models, i, lookups,
                   dirExists, madeDir, file, stderr, result>>

\* getModelsFromGoogleSheets (lines 70-123) and line 26
ReadSource(sheets) ==
    /\ pc = "READ_SOURCE"
    /\ \/ /\ CONFIG.GOOGLE_SHEET_ID = ""
          /\ rows' = << >>
          /\ mapped' = << >>
          /\ source' = getSampleData
          /\ stderr' = stderr
       \/ /\ CONFIG.GOOGLE_SHEET_ID # ""
          /\ \E rs \in sheets :
                /\ rows' = rs
                /\ mapped' = MapRows(rs)
                /\ source' = FilterModels(MapRows(rs))
          /\ stderr' = stderr
       \/ /\ CONFIG.GOOGLE_SHEET_ID # ""
          /\ \E failure \in LiveOutcomes \ {"ok"} :
                stderr' = Append(stderr, << "Error reading Google Sheets:",
                                            failure >>)
          /\ rows' = << >>
          /\ mapped' = << >>
          /\ source' = LiveReadFallback
    /\ models' = source'
    /\ i' = 1
    /\ pc' = "RESOLVE_PHOTOS"
    /\ UNCHANGED <<CONFIG, lookups, dirExists, madeDir, file, result>>

\* one pass of the loop body (lines 33-43)
ResolvePhoto ==
    /\ pc = "RESOLVE_PHOTOS"
    /\ i <= Len(models)
    /\ IF LacksPhotos(models[i])
       THEN /\ lookups' = Append(lookups, [index |-> i, modelId |-> models[i].id])
            /\ \E photos \in getPhotosForModel(CONFIG) :
                  models' = [models EXCEPT ![i] = ResolveModel(models[i], photos)]
       ELSE UNCHANGED <<lookups, models>>
    /\ i' = i + 1
    /\ UNCHANGED <<CONFIG, pc, rows, mapped, source, dirExists, madeDir, file,
                   stderr, result>>

\* the loop ends (line 32) and the run turns to the snapshot (line 47)
ResolveDone ==
    /\ pc = "RESOLVE_PHOTOS"
    /\ i > Len(models)
    /\ pc' = "WRITE_SNAPSHOT"
    /\ UNCHANGED <<CONFIG, rows, mapped, source, models, i, lookups,
                   dirExists, madeDir, file, stderr, result>>

\* Fail with the error swallowed: the catch logs and returns.
FailSwallowed(error) ==
    /\ pc' = "DONE"
    /\ stderr' = Append(stderr, << "Synchronization failed:", error >>)
    /\ result' = Returned([success |-> FALSE, error |-> error])

\* the catch of lines 63-66: log and rethrow
Fail(error) ==
    /\ pc' = "FAILED"
    /\ stderr' = Append(stderr, << "Synchronization failed:", error >>)
    /\ result' = Thrown(error)

\* saveModelsToJSON (lines 144-161) and line 48
WriteSnapshot ==
    /\ pc = "WRITE_SNAPSHOT"
    /\ \E outcome \in WriteOutcomes :
          \/ /\ outcome = "mkdir"
             /\ ~dirExists
             /\ Fail("mkdirSync")
             /\ UNCHANGED <<dirExists, madeDir, file>>
          \/ /\ outcome = "open"
             /\ dirExists' = TRUE
             /\ madeDir' = ~dirExists
             /\ Fail("writeFileSync")
             /\ UNCHANGED file
          \/ /\ outcome = "write"
             /\ dirExists' = TRUE
             /\ madeDir' = ~dirExists
             /\ file' = [exists |-> TRUE, complete |-> FALSE, content |-> << >>]
             /\ Fail("writeFileSync")
          \/ /\ outcome = "ok"
             /\ dirExists' = TRUE
             /\ madeDir' = ~dirExists
             /\ file' = [exists |-> TRUE, complete |-> TRUE,
                         content |-> JSONStringify(models)]
             /\ pc' = "COMPUTE_STATS"
             /\ UNCHANGED <<stderr, result>>
    /\ UNCHANGED <<CONFIG, rows, mapped, source, models, i, lookups>>

\* lines 51-61
ComputeStats ==
    /\ pc = "COMPUTE_STATS"
    /\ \E now \in Clock :
          result' = Returned([success |-> TRUE, stats |-> Stats(models, now)])
    /\ pc' = "DONE"
    /\ UNCHANGED <<CONFIG, rows, mapped, source, models, i, lookups,
                   dirExists, madeDir, file, stderr>>

Next ==
    \/ Start
    \/ ReadSource(Sheets)
    \/ ResolvePhoto
    \/ ResolveDone
    \/ WriteSnapshot
    \/ ComputeStats

Spec == Init /\ [][Next]_vars

(***************************************************************************)
(* The normaliser specification: the same run with a live source and a     *)
(* photo folder configured, over sheets whose rows range over RowDomain.   *)
(***************************************************************************)
InitNorm ==
    InitWith({cfg \in Configs :
                 cfg.GOOGLE_SHEET_ID # "" /\ cfg.YANDEX_DISK_FOLDER # ""})

NextNorm ==
    \/ Start
    \/ ReadSource(NormSheets)
    \/ ResolvePhoto
    \/ ResolveDone
    \/ WriteSnapshot
    \/ ComputeStats

SpecNorm == InitNorm /\ [][NextNorm]_vars


(***************************************************************************)
(* Vocabulary of the properties.                                           *)
(***************************************************************************)
AfterRead == pc \notin {"START", "READ_SOURCE"}

AfterResolve == pc \in {"WRITE_SNAPSHOT", "COMPUTE_STATS", "DONE", "FAILED"}

\* The loop has finished with entity k.
Processed(k) == AfterResolve \/ (pc = "RESOLVE_PHOTOS" /\ k < i)

\* The live read was attempted and failed: the catch logged it.
LiveReadFailed ==
    \E k \in 1..Len(stderr) : stderr[k][1] = "Error reading Google Sheets:"

PersistenceErrors == {"mkdirSync", "writeFileSync"}

\* This run wrote the snapshot in full.
Written == AfterRead /\ file.complete /\ pc \in {"COMPUTE_STATS", "DONE"}

\* The value of member `key` of a JSON object.
Member(object, key) == (CHOOSE m \in object : m[1] = key)[2]

HasMember(object, key) == \E m \in object : m[1] = key

StringFields ==
    {"id", "name", "height", "measurements", "city", "category", "bio"}

\* The recognised headers of each string field, in priority order.
Aliases ==
    [id |-> << "id", "ID" >>,
     name |-> << "name", "Name" >>,
     height |-> << "height", "Height" >>,
     measurements |-> << "measurements", "Measurements" >>,
     city |-> << "city", "City" >>,
     category |-> << "category", "Category" >>,
     bio |-> << "bio", "Bio" >>]

\* The cell under the first of `headers` that the row has, or the empty
\* string when it has none of them.
RECURSIVE FirstPresent(_, _)
FirstPresent(row, headers) ==
    IF headers = << >> THEN << >>
    ELSE IF Head(headers) \in DOMAIN row THEN row[Head(headers)]
    ELSE FirstPresent(row, Tail(headers))

\* The cell under the first of `headers` that the row has with a non-empty
\* string in it, or the empty string when there is none.
RECURSIVE FirstNonEmpty(_, _)
FirstNonEmpty(row, headers) ==
    IF headers = << >> THEN << >>
    ELSE IF Head(headers) \in DOMAIN row /\ Len(row[Head(headers)]) > 0
         THEN row[Head(headers)]
    ELSE FirstNonEmpty(row, Tail(headers))

IsTrimmed(s) == s = << >> \/ (s[1] \notin Whitespace /\ s[Len(s)] \notin Whitespace)

\* The identifiers 0..999 as they appear in a URL.
PlaceholderIds == {ToString(n) : n \in 0..999}

IsPlaceholder(url) == \E id \in PlaceholderIds : url = PicsumUrl(id)

\* The number of photos of all entities, counted photo by photo.
CountPhotos(ms) ==
    Cardinality(UNION {{<< k, n >> : n \in 1..Len(ms[k].photos)} :
                          k \in 1..Len(ms)})

\* Row k of the sheet has a non-blank id and a non-blank name.
Wellformed(k) ==
    /\ Trim(FirstNonEmpty(rows[k], Aliases.id)) # << >>
    /\ Trim(FirstNonEmpty(rows[k], Aliases.name)) # << >>

\* s consists of the entries of t at the indexes in `kept`, in t's order.
IsSelection(s, t, kept) ==
    /\ Len(s) = Cardinality(kept)
    /\ \A k \in kept : s[Cardinality({j \in kept : j <= k})] = t[k]

(***************************************************************************)
(* C1: when the live read fails, getModelsFromGoogleSheets does not raise  *)
(* but returns the built-in dataset, and the failed read does not fail the *)
(* run: syncModels goes on with that dataset and, when it ends, has        *)
(* returned success with the statistics of the built-in dataset and has    *)
(* written that dataset.  The one failure such a run can still meet is a   *)
(* persistence error of saveModelsToJSON, as for any run (C3).             *)
(***************************************************************************)
C1_FailedReadFallsBack ==
    LiveReadFailed =>
        /\ CONFIG.GOOGLE_SHEET_ID # ""
        /\ AfterRead
        /\ source = getSampleData
        /\ models = getSampleData
        /\ pc \in {"RESOLVE_PHOTOS", "WRITE_SNAPSHOT", "COMPUTE_STATS"} =>
              result = Pending
        /\ pc = "FAILED" =>
              result.kind = "throw" /\ result.value \in PersistenceErrors
        /\ pc \in {"COMPUTE_STATS", "DONE"} =>
              /\ file.complete
              /\ file.content = JSONStringify(getSampleData)
        /\ pc = "DONE" =>
              /\ result.kind = "return"
              /\ result.value.success
              /\ result.value.stats.totalModels = 2
              /\ result.value.stats.modelsWithPhotos = 2
              /\ result.value.stats.totalPhotos = 4

C1_Witness ==
    /\ LiveReadFailed
    /\ pc = "DONE"
    /\ result.kind = "return"
    /\ file.content = JSONStringify(getSampleData)

(***************************************************************************)
(* C2: with no source identifier configured the run works on, and          *)
(* persists, exactly the built-in dataset: two entities in their built-in  *)
(* order, each with photos, which the photo step neither looks up nor      *)
(* changes whatever the photo-folder setting; after the write the          *)
(* destination directory exists, also when it was missing before.          *)
(***************************************************************************)
C2_OfflineDataset ==
    (CONFIG.GOOGLE_SHEET_ID = "" /\ AfterRead) =>
        /\ source = getSampleData
        /\ models = getSampleData
        /\ Len(models) >= 2
        /\ models[1].id = << "anna_ivanova" >>
        /\ models[2].id = << "maria_petrova" >>
        /\ \A k \in 1..Len(models) : Len(models[k].photos) > 0
        /\ lookups = << >>
        /\ stderr = << >> \/ pc = "FAILED"
        /\ pc \in {"COMPUTE_STATS", "DONE"} =>
              /\ dirExists
              /\ file.exists /\ file.complete
              /\ Len(file.content) = 2
              /\ \A k \in 1..2 :
                    /\ Member(file.content[k], "id") = getSampleData[k].id
                    /\ Member(file.content[k], "photos")
                          = getSampleData[k].photos

C2_Witness ==
    /\ CONFIG.GOOGLE_SHEET_ID = ""
    /\ CONFIG.YANDEX_DISK_FOLDER = ""
    /\ pc = "DONE"
    /\ madeDir
    /\ dirExists
    /\ file.content = JSONStringify(getSampleData)

(***************************************************************************)
(* C3: a run moves through START, READ_SOURCE, RESOLVE_PHOTOS (entity by   *)
(* entity, in order), WRITE_SNAPSHOT, COMPUTE_STATS, DONE and never back;  *)
(* FAILED is entered only from READ_SOURCE or WRITE_SNAPSHOT, never from   *)
(* photo resolution, and with the error thrown to the caller in place of   *)
(* statistics; DONE and FAILED are terminal.                               *)
(***************************************************************************)
StageEdges ==
    {<< "START", "READ_SOURCE" >>,
     << "READ_SOURCE", "RESOLVE_PHOTOS" >>,
     << "READ_SOURCE", "FAILED" >>,
     << "RESOLVE_PHOTOS", "WRITE_SNAPSHOT" >>,
     << "WRITE_SNAPSHOT", "COMPUTE_STATS" >>,
     << "WRITE_SNAPSHOT", "FAILED" >>,
     << "COMPUTE_STATS", "DONE" >>}

C3_StageOrder ==
    [][/\ pc' # pc => << pc, pc' >> \in StageEdges
       /\ (pc = "RESOLVE_PHOTOS" /\ pc' = pc) =>
             /\ i <= Len(models)
             /\ i' = i + 1
             /\ \A k \in 1..Len(models) : k # i => models'[k] = models[k]
       /\ (pc = "RESOLVE_PHOTOS" /\ pc' # pc) => i = Len(models) + 1
       /\ pc' = "FAILED" =>
             /\ result'.kind = "throw"
             /\ result'.value \in PersistenceErrors
       /\ result'.kind = "return" => pc' = "DONE"
       /\ pc' # "DONE" => result'.kind # "return"
       /\ pc = "WRITE_SNAPSHOT" => pc' \in {"COMPUTE_STATS", "FAILED"}
      ]_vars

C3_Witness ==
    /\ pc = "FAILED"
    /\ result = Thrown("writeFileSync")
    /\ Len(models) = 3
    /\ i = 4
    /\ Len(lookups) > 0

(***************************************************************************)
(* C4: when a run has succeeded, the snapshot is written and is the        *)
(* serialisation of the entity sequence the statistics describe:           *)
(* totalModels is the number of entities, modelsWithPhotos the number of   *)
(* entities with a non-empty photos sequence, totalPhotos the number of    *)
(* photos of all entities together.                                        *)
(***************************************************************************)
C4_Statistics ==
    pc = "DONE" =>
        /\ result.kind = "return"
        /\ result.value.success
        /\ file.complete
        /\ file.content = JSONStringify(models)
        /\ Len(file.content) = result.value.stats.totalModels
        /\ result.value.stats.totalModels = Len(models)
        /\ result.value.stats.modelsWithPhotos
              = Cardinality({k \in 1..Len(models) : Len(models[k].photos) > 0})
        /\ result.value.stats.totalPhotos = CountPhotos(models)
        /\ result.value.stats.timestamp \in Clock

\* three entities with 2, 3 and 0 photos: statistics 3, 2, 5
C4_Witness ==
    /\ pc = "DONE"
    /\ Len(models) = 3
    /\ Len(models[1].photos) = 2
    /\ Len(models[2].photos) = 3
    /\ Len(models[3].photos) = 0
    /\ result.value.stats.totalModels = 3
    /\ result.value.stats.modelsWithPhotos = 2
    /\ result.value.stats.totalPhotos = 5

(***************************************************************************)
(* C5: no entity the source reader returns, none the run works on and none *)
(* in a written snapshot has an id or a name that is empty after trimming; *)
(* when rows were read, the reader logged no error and returned exactly    *)
(* the normalised rows whose id and name are non-blank, in sheet order.    *)
(***************************************************************************)
C5_BlankRowsDropped ==
    AfterRead =>
        /\ \A k \in 1..Len(source) :
              Trim(source[k].id) # << >> /\ Trim(source[k].name) # << >>
        /\ \A k \in 1..Len(models) :
              Trim(models[k].id) # << >> /\ Trim(models[k].name) # << >>
        /\ file.complete =>
              \A k \in 1..Len(file.content) :
                  /\ Trim(Member(file.content[k], "id")) # << >>
                  /\ Trim(Member(file.content[k], "name")) # << >>
        /\ rows # << >> =>
              /\ ~LiveReadFailed
              /\ pc = "FAILED" => result.value \in PersistenceErrors
              /\ Len(mapped) = Len(rows)
              /\ IsSelection(source, mapped,
                             {k \in 1..Len(rows) : Wellformed(k)})
              /\ Len(models) = Len(source)
              /\ \A k \in 1..Len(models) :
                    models[k].id = source[k].id /\ models[k].name = source[k].name

\* a blank row between two retained rows
C5_Witness ==
    /\ pc = "DONE"
    /\ Len(rows) = 3
    /\ Wellformed(1) /\ ~Wellformed(2) /\ Wellformed(3)
    /\ Len(file.content) = 2
    /\ Member(file.content[2], "id") = mapped[3].id
    /\ mapped[1].id # mapped[3].id

(***************************************************************************)
(* C6: a normalised entity has is_available false exactly when its row     *)
(* holds the literal string false under is_available or under available;   *)
(* any other cell, and no cell at all, gives true.  Retained entities keep *)
(* the value to the end of the run.                                        *)
(***************************************************************************)
C6_AvailableUnlessLiteralFalse ==
    (AfterRead /\ rows # << >>) =>
        /\ \A k \in 1..Len(rows) :
              mapped[k].is_available = FALSE
                 <=> \E key \in {"is_available", "available"} :
                        key \in DOMAIN rows[k] /\ rows[k][key] = << "false" >>
        /\ \A k \in 1..Len(rows) : mapped[k].is_available \in BOOLEAN
        /\ \A k \in 1..Len(models) :
              \E j \in 1..Len(rows) :
                  /\ Wellformed(j)
                  /\ models[k].id = mapped[j].id
                  /\ models[k].is_available = mapped[j].is_available

\* false under the second alias while the first says true
C6_Witness ==
    /\ pc = "DONE"
    /\ Len(rows) = 1
    /\ "is_available" \in DOMAIN rows[1] /\ rows[1].is_available = << "true" >>
    /\ "available" \in DOMAIN rows[1] /\ rows[1].available = << "false" >>
    /\ Len(models) = 1
    /\ models[1].is_available = FALSE

(***************************************************************************)
(* C7: once the loop has finished with an entity that the reader returned  *)
(* without photos, then with no photo folder configured the entity has     *)
(* exactly 2 photos, each the placeholder URL with an identifier in        *)
(* 0..999, and with a photo folder configured its photos are still empty;  *)
(* in both cases the provider was asked once for it and the run has not    *)
(* failed on it.                                                           *)
(***************************************************************************)
C7_PlaceholderPhotos ==
    AfterRead =>
        /\ \A k \in 1..Len(source) :
              (Processed(k) /\ Len(source[k].photos) = 0) =>
                  /\ Cardinality({n \in 1..Len(lookups) : lookups[n].index = k}) = 1
                  /\ IF CONFIG.YANDEX_DISK_FOLDER = ""
                     THEN /\ Len(models[k].photos) = 2
                          /\ \A n \in 1..2 : IsPlaceholder(models[k].photos[n])
                     ELSE models[k].photos = << >>
        /\ pc = "RESOLVE_PHOTOS" => result = Pending
        /\ pc = "FAILED" => result.value \in PersistenceErrors

C7_Witness ==
    /\ pc = "DONE"
    /\ CONFIG.YANDEX_DISK_FOLDER = ""
    /\ \E k \in 1..Len(source) :
          /\ source[k].photos = << >>
          /\ models[k].photos = << PicsumUrl("999"), PicsumUrl("0") >>

(***************************************************************************)
(* C8: an entity the reader returned with photos keeps exactly those       *)
(* photos through the loop and the provider is never asked for it; and     *)
(* once the loop is over, running its body again on any entity, whatever   *)
(* the provider would return, changes nothing.                             *)
(***************************************************************************)
C8_ResolutionIdempotent ==
    AfterRead =>
        /\ Len(models) = Len(source)
        /\ \A k \in 1..Len(source) :
              Len(source[k].photos) > 0 =>
                  /\ models[k] = source[k]
                  /\ \A n \in 1..Len(lookups) : lookups[n].index # k
        /\ AfterResolve =>
              \A k \in 1..Len(models) :
                  \A photos \in getPhotosForModel(CONFIG) :
                      ResolveModel(models[k], photos) = models[k]

C8_Witness ==
    /\ pc = "DONE"
    /\ CONFIG.YANDEX_DISK_FOLDER = ""
    /\ Len(models) = 3
    /\ Len(source[1].photos) = 3
    /\ Len(source[2].photos) = 0
    /\ Len(source[3].photos) = 2
    /\ models[1].photos = source[1].photos
    /\ Len(lookups) = 1

(***************************************************************************)
(* C9 as stated: in a written snapshot no two entities have the same id.   *)
(***************************************************************************)
C9_UniqueIds ==
    Written =>
        \A j, k \in 1..Len(file.content) :
            j # k => Member(file.content[j], "id") # Member(file.content[k], "id")

(***************************************************************************)
(* C10 as stated: every entity the reader returns has all seven string     *)
(* fields, none with leading or trailing whitespace, and each normalised   *)
(* row's field is the trimmed cell of the first alias present (lowercase   *)
(* header first), empty when neither alias is there.                       *)
(***************************************************************************)
C10_AllFieldsTrimmed ==
    AfterRead =>
        /\ \A k \in 1..Len(source) :
              \A f \in StringFields :
                  f \in DOMAIN source[k] /\ IsTrimmed(source[k][f])
        /\ \A k \in 1..Len(rows) :
              \A f \in StringFields :
                  mapped[k][f] = Trim(FirstPresent(rows[k], Aliases[f]))

(***************************************************************************)
(* C10 amended: for every row read from the live source the normalised     *)
(* entity has all seven string fields; id and name are the trimmed cell of *)
(* the first alias (lowercase header first) holding a non-empty string,    *)
(* the other five fields are that cell as it stands, untrimmed; a field is *)
(* the empty string when neither alias holds a non-empty string.  Retained *)
(* entities keep these fields to the end of the run, their id and name     *)
(* without leading or trailing whitespace.                                 *)
(***************************************************************************)
C10_FieldsFromAliases ==
    (AfterRead /\ rows # << >>) =>
        /\ \A k \in 1..Len(rows) :
              /\ StringFields \subseteq DOMAIN mapped[k]
              /\ \A f \in {"id", "name"} :
                    mapped[k][f] = Trim(FirstNonEmpty(rows[k], Aliases[f]))
              /\ \A f \in StringFields \ {"id", "name"} :
                    mapped[k][f] = FirstNonEmpty(rows[k], Aliases[f])
        /\ \A k \in 1..Len(models) :
              /\ IsTrimmed(models[k].id) /\ IsTrimmed(models[k].name)
              /\ \E j \in 1..Len(rows) :
                    \A f \in StringFields : models[k][f] = mapped[j][f]

\* the lowercase cell is there but empty, the capitalised one is padded
C10_Witness ==
    /\ pc = "DONE"
    /\ Len(rows) = 1
    /\ "height" \in DOMAIN rows[1] /\ rows[1].height = << >>
    /\ "Height" \in DOMAIN rows[1]
    /\ Len(models) = 1
    /\ models[1].height = << " ", "175", " " >>
    /\ Member(file.content[1], "height") = << " ", "175", " " >>

=============================================================================
